---- MODULE Spec2Model ----
(***************************************************************************)
(* Model of scripts/process_translocations.py: the one-shot batch run that *)
(* turns a fusion-event CSV into web_data/translocations.json.             *)
(*                                                                         *)
(* A string is a sequence of one-character strings, so that strip, split,  *)
(* lower, replace and the ordering used by sorted() are computed as        *)
(* Python computes them.  A Python dict is a function (its key order is    *)
(* not modelled), a Python set is a set, a list is a sequence.             *)
(***************************************************************************)
EXTENDS Integers, Sequences, FiniteSets, TLC

(***************************************************************************)
(* Bound of the model: the number of data rows of the input CSV.           *)
(***************************************************************************)
MaxRows == 4

(***************************************************************************)
(* Strings                                                                 *)
(***************************************************************************)
\* The printable ASCII characters in code-point order, 32 (space) to 126
\* (position 96, the grave accent, is held by a placeholder no character equals).
ASCII ==
  << " ", "!", "\"", "#", "$", "%", "&", "'", "(", ")", "*", "+", ",", "-",
     ".", "/", "0", "1", "2", "3", "4", "5", "6", "7", "8", "9", ":", ";",
     "<", "=", ">", "?", "@", "A", "B", "C", "D", "E", "F", "G", "H", "I",
     "J", "K", "L", "M", "N", "O", "P", "Q", "R", "S", "T", "U", "V", "W",
     "X", "Y", "Z", "[", "\\", "]", "^", "_", "<grave>", "a", "b", "c", "d", "e",
     "f", "g", "h", "i", "j", "k", "l", "m", "n", "o", "p", "q", "r", "s",
     "t", "u", "v", "w", "x", "y", "z", "{", "|", "}", "~" >>

\* ord(c) for a printable ASCII character
CodePoint(c) == 31 + (CHOOSE i \in 1..Len(ASCII) : ASCII[i] = c)

\* c.lower() on one character: A..Z (65..90) map to a..z (97..122)
LowerChar(c) ==
  IF CodePoint(c) >= 65 /\ CodePoint(c) <= 90
    THEN ASCII[CodePoint(c) + 32 - 31]
    ELSE c

\* s.lower()
Lower(s) == [i \in 1..Len(s) |-> LowerChar(s[i])]

\* s.replace(ch, "") for a one-character ch
RemoveChar(s, ch) == SelectSeq(s, LAMBDA c : c # ch)

\* the characters str.strip() removes, those with str.isspace(): tab, line
\* feed, form feed, carriage return, space, then (written raw, a string has
\* no escape for them) U+000B, U+001C to U+001F, U+0085, U+00A0 and U+1680.
\* The remaining Unicode spaces (U+2000 to U+200A, U+2028, U+2029, U+202F,
\* U+205F, U+3000) cannot occur in a string of this module.
IsSpace(c) ==
  c \in { "\t", "\n", "\f", "\r", " ",
          "", "", "", "", "", "", " ", " " }

RECURSIVE LStrip(_)
LStrip(s) ==
  IF s # << >> /\ IsSpace(Head(s)) THEN LStrip(Tail(s)) ELSE s

RECURSIVE RStrip(_)
RStrip(s) ==
  IF s # << >> /\ IsSpace(s[Len(s)])
    THEN RStrip(SubSeq(s, 1, Len(s) - 1))
    ELSE s

\* s.strip()
Strip(s) == RStrip(LStrip(s))

\* s.find(sep) + 1: the position of the first occurrence of sep, 0 if none
Find(s, sep) ==
  LET hits == { i \in 1..(Len(s) - Len(sep) + 1) :
                  SubSeq(s, i, i + Len(sep) - 1) = sep }
  IN IF hits = {} THEN 0
     ELSE CHOOSE i \in hits : \A j \in hits : i <= j

\* sep in s
Contains(s, sep) == Find(s, sep) # 0

\* the last position at which sep occurs in s, 0 if none
FindLast(s, sep) ==
  LET hits == { i \in 1..(Len(s) - Len(sep) + 1) :
                  SubSeq(s, i, i + Len(sep) - 1) = sep }
  IN IF hits = {} THEN 0
     ELSE CHOOSE i \in hits : \A j \in hits : i >= j

\* variant of SplitOnce: s.rsplit(sep, 1), the cut at the last occurrence
SplitAtLast(s, sep) ==
  LET i == FindLast(s, sep)
  IN IF i = 0 THEN << s >>
     ELSE << SubSeq(s, 1, i - 1), SubSeq(s, i + Len(sep), Len(s)) >>

\* s.split(sep, 1): cut at the first occurrence of sep only
SplitOnce(s, sep) ==
  LET i == Find(s, sep)
  IN IF i = 0 THEN << s >>
     ELSE << SubSeq(s, 1, i - 1), SubSeq(s, i + Len(sep), Len(s)) >>

\* a < b in Python's string order (lexicographic by code point)
RECURSIVE StrLess(_, _)
StrLess(a, b) ==
  IF b = << >> THEN FALSE
  ELSE IF a = << >> THEN TRUE
  ELSE IF Head(a) = Head(b) THEN StrLess(Tail(a), Tail(b))
  ELSE CodePoint(Head(a)) < CodePoint(Head(b))

\* variant of SortStrings: sorted(S, reverse=True)
RECURSIVE SortStringsDescending(_)
SortStringsDescending(S) ==
  IF S = {} THEN << >>
  ELSE LET m == CHOOSE x \in S : \A y \in S \ {x} : StrLess(y, x)
       IN << m >> \o SortStringsDescending(S \ {m})

\* sorted(S) for a set of strings
RECURSIVE SortStrings(_)
SortStrings(S) ==
  IF S = {} THEN << >>
  ELSE LET m == CHOOSE x \in S : \A y \in S \ {x} : StrLess(x, y)
       IN << m >> \o SortStrings(S \ {m})

\* set(list)
ToSet(s) == { s[i] : i \in 1..Len(s) }

(***************************************************************************)
(* Column / schema detection (lines 51-79)                                 *)
(***************************************************************************)
\* None, and any other falsy column name: no header matches as the empty
\* string, and the code tests the gene columns by truthiness
None == << >>

ModelColNames ==
  { << "M","o","d","e","l","I","D" >>,
    << "D","e","p","M","a","p","_","I","D" >>,
    << "C","e","l","l","L","i","n","e","I","D" >>,
    << "M","o","d","e","l","I","d" >> }

Gene1Names ==
  { << "l","e","f","t","g","e","n","e" >>,
    << "g","e","n","e","1" >>,
    << "g","e","n","e","a" >>,
    << "l","e","f","t","g","e","n","e","n","a","m","e" >> }

Gene2Names ==
  { << "r","i","g","h","t","g","e","n","e" >>,
    << "g","e","n","e","2" >>,
    << "g","e","n","e","b" >>,
    << "r","i","g","h","t","g","e","n","e","n","a","m","e" >> }

FusionNames ==
  { << "f","u","s","i","o","n","n","a","m","e" >>,
    << "f","u","s","i","o","n" >>,
    << "n","a","m","e" >> }

\* cl = c.lower().replace("_", "").replace(" ", "")
NormalizeHeader(c) == RemoveChar(RemoveChar(Lower(c), "_"), " ")

\* the first header that is an identifier-column name, else the first column
DetectModelCol(cols) ==
  LET hits == { i \in 1..Len(cols) : cols[i] \in ModelColNames }
  IN IF hits = {} THEN cols[1]
     ELSE cols[CHOOSE i \in hits : \A j \in hits : i <= j]

\* the loop has no break: the last matching header wins
LastMatch(cols, names) ==
  LET hits == { i \in 1..Len(cols) : NormalizeHeader(cols[i]) \in names }
  IN IF hits = {} THEN None
     ELSE cols[CHOOSE i \in hits : \A j \in hits : i >= j]

DetectGene1Col(cols) == LastMatch(cols, Gene1Names)

\* elif: a header is tested for gene2 only if it is not a gene1 name
DetectGene2Col(cols) == LastMatch(cols, Gene2Names \ Gene1Names)

DetectFusionNameCol(cols) ==
  LastMatch(cols, FusionNames \ (Gene1Names \cup Gene2Names))

\* variant of SchemaUnresolvable: the error is reported but not fatal
SchemaErrorNotFatal(g1c, g2c, fc) == FALSE

\* line 74-79: no pair of gene columns and no fusion name column
SchemaUnresolvable(g1c, g2c, fc) ==
  (g1c = None \/ g2c = None) /\ fc = None

\* the field a csv.DictReader row keeps for a header: with a repeated header
\* the last one wins
ColIndex(cs, col) ==
  CHOOSE i \in 1..Len(cs) :
    cs[i] = col /\ \A j \in 1..Len(cs) : cs[j] = col => j <= i

\* row[col]
RowGet(cs, row, col) == row[ColIndex(cs, col)]

(***************************************************************************)
(* Row filter and extractor (lines 81-111)                                 *)
(***************************************************************************)
\* variant of IsValidModel: the membership test is left out
IsValidModelAlways(model_id, valid) == TRUE

\* line 83: the row is kept only if its identifier is a valid cell line
IsValidModel(model_id, valid) == model_id \in valid

\* variant of CleanGene: the annotation is kept
CleanGeneKeepAnnotation(g) == Strip(g)

\* lines 87-93: strip, then cut at the first " (" and strip again
CleanGene(g) ==
  LET s == Strip(g)
  IN IF Contains(s, << " ", "(" >>)
       THEN Strip(SplitOnce(s, << " ", "(" >>)[1])
       ELSE s

\* lines 97-102: the parts of a fusion name, << >> when it has no hyphen
ParseFusionName(fname) ==
  IF Contains(fname, << "-", "-" >>) THEN SplitOnce(fname, << "-", "-" >>)
  ELSE IF Contains(fname, << "-" >>) THEN SplitOnce(fname, << "-" >>)
  ELSE << >>

\* lines 86-106: the gene pair of a row, << >> when the row is skipped
GenePair(cs, g1c, g2c, fc, row) ==
  IF g1c # None /\ g2c # None
    THEN << CleanGene(RowGet(cs, row, g1c)), CleanGene(RowGet(cs, row, g2c)) >>
  ELSE IF fc # None
    THEN LET parts == ParseFusionName(Strip(RowGet(cs, row, fc)))
         IN IF parts = << >> THEN << >>
            ELSE << Strip(parts[1]),
                    IF Len(parts) > 1 THEN Strip(parts[2]) ELSE << >> >>
  ELSE << >>

\* one iteration of the row loop: the events the row appends to fusions
ExtractRow(cs, mc, g1c, g2c, fc, valid, row) ==
  LET model_id == Strip(RowGet(cs, row, mc))
      pair     == GenePair(cs, g1c, g2c, fc, row)
  IN IF ~IsValidModel(model_id, valid) THEN << >>
     ELSE IF pair = << >> THEN << >>
     ELSE IF pair[1] = << >> \/ pair[2] = << >> THEN << >>
     ELSE << << model_id, pair[1], pair[2] >> >>

(***************************************************************************)
(* Aggregator (lines 117-121)                                              *)
(***************************************************************************)
\* defaultdict(lambda: defaultdict(set)) before any insertion
EmptyMap == << >>

\* variant of AddPartner: gene_partners[g][model_id] = {p}
AddPartnerOverwrite(gp, g, model_id, p) ==
  IF g \notin DOMAIN gp
    THEN (g :> (model_id :> {p})) @@ gp
  ELSE IF model_id \notin DOMAIN gp[g]
    THEN [gp EXCEPT ![g] = (model_id :> {p}) @@ @]
  ELSE [gp EXCEPT ![g][model_id] = {p}]

\* gene_partners[g][model_id].add(p)
AddPartner(gp, g, model_id, p) ==
  IF g \notin DOMAIN gp
    THEN (g :> (model_id :> {p})) @@ gp
  ELSE IF model_id \notin DOMAIN gp[g]
    THEN [gp EXCEPT ![g] = (model_id :> {p}) @@ @]
  ELSE [gp EXCEPT ![g][model_id] = @ \cup {p}]

\* variant of AddEvent: the event is indexed under its first gene only
AddEventOneWay(gp, e) == AddPartner(gp, e[2], e[1], e[3])

\* lines 120-121: the event is indexed under both of its genes
AddEvent(gp, e) ==
  AddPartner(AddPartner(gp, e[2], e[1], e[3]), e[3], e[1], e[2])

(***************************************************************************)
(* Threshold filter and summarizer (lines 124-173)                         *)
(***************************************************************************)
MIN_CELL_LINES == 3

\* variant of PassesThreshold: strictly more than the threshold
PassesThresholdStrict(n_cell_lines, threshold) == n_cell_lines > threshold

\* line 127
PassesThreshold(n_cell_lines, threshold) == n_cell_lines >= threshold

\* lines 124-128
FilterGenes(gp, threshold) ==
  LET keep == { g \in DOMAIN gp :
                  PassesThreshold(Cardinality(DOMAIN gp[g]), threshold) }
  IN [g \in keep |-> gp[g]]

\* str(n) for one digit
DigitStr(n) == ASCII[n + 17]

\* variant of Bucket: str(min(n_partners - 1, 2))
BucketOffByOne(n_partners) ==
  DigitStr(IF n_partners - 1 < 2 THEN n_partners - 1 ELSE 2)

\* line 151: str(min(n_partners, 2))
Bucket(n_partners) ==
  DigitStr(IF n_partners < 2 THEN n_partners ELSE 2)

\* variant of WildTypeCount: the translocated cell lines are not subtracted
WildTypeCountAll(valid, total_translocated) == Cardinality(valid)

\* line 155
WildTypeCount(valid, total_translocated) ==
  Cardinality(valid) - total_translocated

\* lines 138-167: the record of one retained gene
GeneRecord(cell_data, valid) ==
  LET total_translocated == Cardinality(DOMAIN cell_data)
      tally == [b \in { Bucket(Cardinality(cell_data[c])) : c \in DOMAIN cell_data }
                  |-> Cardinality({ c \in DOMAIN cell_data :
                                      Bucket(Cardinality(cell_data[c])) = b })]
      counts == ("0" :> WildTypeCount(valid, total_translocated)) @@ tally
      Get(b) == IF b \in DOMAIN counts THEN counts[b] ELSE 0
  IN [ translocations |-> [c \in DOMAIN cell_data |-> Cardinality(cell_data[c])],
       partners |-> [c \in DOMAIN cell_data |-> SortStrings(cell_data[c])],
       counts |-> [b \in {"0", "1", "2"} |-> Get(b)],
       total_translocated |-> total_translocated ]

\* lines 133-173
BuildOutput(filtered, valid) ==
  [ genes |-> SortStrings(DOMAIN filtered),
    geneCounts |-> [g \in DOMAIN filtered |-> Cardinality(DOMAIN filtered[g])],
    geneData |-> [g \in DOMAIN filtered |-> GeneRecord(filtered[g], valid)] ]

(***************************************************************************)
(* The loops of main() as functions of their input                         *)
(***************************************************************************)
\* lines 81-111 over a list of rows
RECURSIVE ExtractAll(_, _, _, _, _, _, _)
ExtractAll(cs, mc, g1c, g2c, fc, valid, rows) ==
  IF rows = << >> THEN << >>
  ELSE ExtractRow(cs, mc, g1c, g2c, fc, valid, Head(rows))
         \o ExtractAll(cs, mc, g1c, g2c, fc, valid, Tail(rows))

\* lines 117-121 over a list of events, starting from gp
RECURSIVE Aggregate(_, _)
Aggregate(gp, events) ==
  IF events = << >> THEN gp
  ELSE Aggregate(AddEvent(gp, Head(events)), Tail(events))

\* lines 113-173: the output structure of a list of events
Summarize(events, valid, threshold) ==
  BuildOutput(FilterGenes(Aggregate(EmptyMap, events), threshold), valid)

(***************************************************************************)
(* Inputs of the model                                                     *)
(***************************************************************************)
ACH1 == << "A","C","H","-","1" >>
ACH2 == << "A","C","H","-","2" >>
ACH3 == << "A","C","H","-","3" >>
ACH4 == << "A","C","H","-","4" >>
ACH9 == << "A","C","H","-","9" >>
ACH3Padded == << "\f","A","C","H","-","3"," " >>
BCR == << "B","C","R" >>
ABL1 == << "A","B","L","1" >>
BCRAnnotated == << "B","C","R"," ","(","E","N","S","G","1",")" >>
BCRUnspaced == << "B","C","R","(","E","N","S","G","1",")" >>

\* the cellLines array of metadata.json: with a repeated entry, with a
\* fourth identifier
MetadataLists ==
  { << ACH1, ACH2, ACH3, ACH1 >>,
    << ACH1, ACH2, ACH3, ACH4 >> }

\* header rows: a pair of gene columns and an identifier column; a fusion
\* name spelt loosely and no identifier column name; one gene column only,
\* spelt loosely (no gene source); no header at all
HeaderSeparate ==
  << << "M","o","d","e","l","I","D" >>,
     << "L","e","f","t","G","e","n","e" >>,
     << "R","i","g","h","t","G","e","n","e" >> >>
HeaderCombined ==
  << << "S","a","m","p","l","e" >>,
     << "F","u","s","i","o","n","_","N","a","m","e" >> >>
HeaderNoGenes ==
  << << "g","e","n","e"," ","A" >> >>
HeaderEmpty == << >>

Headers == { HeaderSeparate, HeaderCombined, HeaderNoGenes, HeaderEmpty }

\* data rows of three fields (identifier, gene, gene)
Rows3 ==
  { << ACH1, BCRAnnotated, ABL1 >>,
    << ACH1, BCR, ABL1 >>,
    << ACH2, BCR, ABL1 >>,
    << ACH3Padded, ABL1, BCR >>,
    << ACH1, BCRUnspaced, ABL1 >>,
    << ACH9, BCR, ABL1 >> }

\* data rows of two fields (identifier, fusion name); ACH-4 is a valid
\* identifier under one of the two metadata lists only; the third name has
\* U+000B before and U+00A0 after its double hyphen
Rows2 ==
  { << ACH1, << "B","C","R","-","-","A","B","L","1" >> >>,
    << ACH2, << "B","C","R","-","A","B","L","1" >> >>,
    << ACH3Padded, << "A","B","L","1","","-","-"," ","B","C","R" >> >>,
    << ACH1, << "B","C","R","-","-","A","B","L","1","-","-","E","T","V","6" >> >>,
    << ACH2, << "B","C","R" >> >>,
    << ACH4, << "-","-","A","B","L","1" >> >> }

\* data rows of one field
Rows1 == { << ACH1 >>, << ACH9 >> }

\* the data rows a file with this header can hold
RowsFor(cs) ==
  IF Len(cs) = 3 THEN Rows3 ELSE IF Len(cs) = 2 THEN Rows2 ELSE Rows1

\* the files with this header: up to MaxRows data rows
FilesFor(cs) == UNION { [1..n -> RowsFor(cs)] : n \in 0..MaxRows }

(***************************************************************************)
(* State                                                                   *)
(***************************************************************************)
VARIABLES
  pc,               \* position of main()
  argc,             \* len(sys.argv)
  min_cell_lines,   \* the module global MIN_CELL_LINES
  metadata,         \* metadata["cellLines"]
  valid_cell_lines, \* set(metadata["cellLines"])
  cols,             \* reader.fieldnames
  csv_rows,         \* the data rows of the input file
  row_idx,          \* the next data row the reader yields
  model_col, gene1_col, gene2_col, fusion_name_col,
  fusions,          \* list of (model_id, g1, g2)
  agg_idx,          \* the next element of fusions to index
  gene_partners,    \* gene -> cell line -> set of partners
  filtered_genes,
  output,           \* the structure of lines 169-173
  written,          \* what has been written to web_data/translocations.json
  exit_code         \* "running", "0" or "1"

vars ==
  << pc, argc, min_cell_lines, metadata, valid_cell_lines, cols, csv_rows,
     row_idx, model_col, gene1_col, gene2_col, fusion_name_col, fusions,
     agg_idx, gene_partners, filtered_genes, output, written, exit_code >>

NoOutput == [ genes |-> << >>, geneCounts |-> EmptyMap, geneData |-> EmptyMap ]

InitWith(threshold) ==
  /\ pc = "start"
  /\ argc = 0
  /\ min_cell_lines = threshold
  /\ metadata = << >>
  /\ valid_cell_lines = {}
  /\ cols = << >>
  /\ csv_rows = << >>
  /\ row_idx = 1
  /\ model_col = None
  /\ gene1_col = None
  /\ gene2_col = None
  /\ fusion_name_col = None
  /\ fusions = << >>
  /\ agg_idx = 1
  /\ gene_partners = EmptyMap
  /\ filtered_genes = EmptyMap
  /\ output = NoOutput
  /\ written = << >>
  /\ exit_code = "running"

Init == InitWith(MIN_CELL_LINES)

\* the same program with the threshold constant edited to 1
InitLowered == InitWith(1)

(***************************************************************************)
(* Steps of main()                                                         *)
(***************************************************************************)
\* lines 25-27: no argument, usage message and sys.exit(1)
UsageError ==
  /\ pc = "start"
  /\ \E n \in {1} :
       /\ n < 2
       /\ argc' = n
  /\ pc' = "exited"
  /\ exit_code' = "1"
  /\ UNCHANGED << min_cell_lines, metadata, valid_cell_lines, cols, csv_rows,
                  row_idx, model_col, gene1_col, gene2_col, fusion_name_col,
                  fusions, agg_idx, gene_partners, filtered_genes, output,
                  written >>

\* lines 25-33: the argument is there
ArgsOk ==
  /\ pc = "start"
  /\ \E n \in {2} :
       /\ ~(n < 2)
       /\ argc' = n
  /\ pc' = "load_metadata"
  /\ UNCHANGED << min_cell_lines, metadata, valid_cell_lines, cols, csv_rows,
                  row_idx, model_col, gene1_col, gene2_col, fusion_name_col,
                  fusions, agg_idx, gene_partners, filtered_genes, output,
                  written, exit_code >>

\* lines 36-39
LoadMetadata ==
  /\ pc = "load_metadata"
  /\ \E m \in MetadataLists :
       /\ metadata' = m
       /\ valid_cell_lines' = ToSet(m)
  /\ pc' = "open_csv"
  /\ UNCHANGED << argc, min_cell_lines, cols, csv_rows, row_idx, model_col,
                  gene1_col, gene2_col, fusion_name_col, fusions, agg_idx,
                  gene_partners, filtered_genes, output, written, exit_code >>

\* lines 46-49: the file is opened and its header row read
OpenCsv ==
  /\ pc = "open_csv"
  /\ \E h \in Headers :
       /\ cols' = h
       /\ \E file \in FilesFor(h) : csv_rows' = file
  /\ pc' = "detect"
  /\ UNCHANGED << argc, min_cell_lines, metadata, valid_cell_lines, row_idx,
                  model_col, gene1_col, gene2_col, fusion_name_col, fusions,
                  agg_idx, gene_partners, filtered_genes, output, written,
                  exit_code >>

\* line 59 with no header: cols[0] raises, the interpreter exits with 1
DetectCrash ==
  /\ pc = "detect"
  /\ cols = << >>
  /\ pc' = "crashed"
  /\ exit_code' = "1"
  /\ UNCHANGED << argc, min_cell_lines, metadata, valid_cell_lines, cols,
                  csv_rows, row_idx, model_col, gene1_col, gene2_col,
                  fusion_name_col, fusions, agg_idx, gene_partners,
                  filtered_genes, output, written >>

\* the position after the row loop has yielded row number i - 1
AfterRow(i) == IF i > Len(csv_rows) THEN "aggregate" ELSE "rows"

\* lines 51-79, the schema cannot be resolved: message and sys.exit(1)
SchemaError ==
  /\ pc = "detect"
  /\ cols # << >>
  /\ SchemaUnresolvable(DetectGene1Col(cols), DetectGene2Col(cols),
                        DetectFusionNameCol(cols))
  /\ model_col' = DetectModelCol(cols)
  /\ gene1_col' = DetectGene1Col(cols)
  /\ gene2_col' = DetectGene2Col(cols)
  /\ fusion_name_col' = DetectFusionNameCol(cols)
  /\ pc' = "exited"
  /\ exit_code' = "1"
  /\ UNCHANGED << argc, min_cell_lines, metadata, valid_cell_lines, cols,
                  csv_rows, row_idx, fusions, agg_idx, gene_partners,
                  filtered_genes, output, written >>

\* lines 51-79, the schema is resolved: on to the row loop
SchemaResolved ==
  /\ pc = "detect"
  /\ cols # << >>
  /\ ~SchemaUnresolvable(DetectGene1Col(cols), DetectGene2Col(cols),
                         DetectFusionNameCol(cols))
  /\ model_col' = DetectModelCol(cols)
  /\ gene1_col' = DetectGene1Col(cols)
  /\ gene2_col' = DetectGene2Col(cols)
  /\ fusion_name_col' = DetectFusionNameCol(cols)
  /\ pc' = AfterRow(row_idx)
  /\ UNCHANGED << argc, min_cell_lines, metadata, valid_cell_lines, cols,
                  csv_rows, row_idx, fusions, agg_idx, gene_partners,
                  filtered_genes, output, written, exit_code >>

\* lines 81-111: one iteration of the row loop
ProcessRow ==
  /\ pc = "rows"
  /\ row_idx <= Len(csv_rows)
  /\ fusions' = fusions \o ExtractRow(cols, model_col, gene1_col, gene2_col,
                                      fusion_name_col, valid_cell_lines,
                                      csv_rows[row_idx])
  /\ row_idx' = row_idx + 1
  /\ pc' = AfterRow(row_idx + 1)
  /\ UNCHANGED << argc, min_cell_lines, metadata, valid_cell_lines, cols,
                  csv_rows, model_col, gene1_col, gene2_col, fusion_name_col,
                  agg_idx, gene_partners, filtered_genes, output, written,
                  exit_code >>

\* lines 119-121: one iteration of the indexing loop
AggregateStep ==
  /\ pc = "aggregate"
  /\ agg_idx <= Len(fusions)
  /\ gene_partners' = AddEvent(gene_partners, fusions[agg_idx])
  /\ agg_idx' = agg_idx + 1
  /\ UNCHANGED << pc, argc, min_cell_lines, metadata, valid_cell_lines, cols,
                  csv_rows, row_idx, model_col, gene1_col, gene2_col,
                  fusion_name_col, fusions, filtered_genes, output, written,
                  exit_code >>

\* lines 124-130, entered when the indexing loop is over
FilterStep ==
  /\ pc = "aggregate"
  /\ agg_idx > Len(fusions)
  /\ filtered_genes' = FilterGenes(gene_partners, min_cell_lines)
  /\ pc' = "build"
  /\ UNCHANGED << argc, min_cell_lines, metadata, valid_cell_lines, cols,
                  csv_rows, row_idx, model_col, gene1_col, gene2_col,
                  fusion_name_col, fusions, agg_idx, gene_partners, output,
                  written, exit_code >>

\* lines 133-173
BuildStep ==
  /\ pc = "build"
  /\ output' = BuildOutput(filtered_genes, valid_cell_lines)
  /\ pc' = "write"
  /\ UNCHANGED << argc, min_cell_lines, metadata, valid_cell_lines, cols,
                  csv_rows, row_idx, model_col, gene1_col, gene2_col,
                  fusion_name_col, fusions, agg_idx, gene_partners,
                  filtered_genes, written, exit_code >>

\* lines 175-180, and the normal return of main()
WriteStep ==
  /\ pc = "write"
  /\ written' = Append(written, output)
  /\ pc' = "done"
  /\ exit_code' = "0"
  /\ UNCHANGED << argc, min_cell_lines, metadata, valid_cell_lines, cols,
                  csv_rows, row_idx, model_col, gene1_col, gene2_col,
                  fusion_name_col, fusions, agg_idx, gene_partners,
                  filtered_genes, output >>

Next ==
  \/ UsageError
  \/ ArgsOk
  \/ LoadMetadata
  \/ OpenCsv
  \/ DetectCrash
  \/ SchemaError
  \/ SchemaResolved
  \/ ProcessRow
  \/ AggregateStep
  \/ FilterStep
  \/ BuildStep
  \/ WriteStep

Spec == Init /\ [][Next]_vars

SpecLowered == InitLowered /\ [][Next]_vars

TypeOK ==
  /\ pc \in {"start", "load_metadata", "open_csv", "detect", "rows",
             "aggregate", "build", "write", "done", "exited", "crashed"}
  /\ exit_code \in {"running", "0", "1"}
  /\ row_idx \in 1..(Len(csv_rows) + 1)
  /\ agg_idx \in 1..(Len(fusions) + 1)
  /\ Len(written) <= 1

(***************************************************************************)
(* Properties                                                              *)
(***************************************************************************)
\* the file has been written: its content
HasOutput == written # << >>
Out == written[1]

\* the identifiers, genes and partners of the accepted events
EventsOf(g) == { i \in 1..Len(fusions) : g \in {fusions[i][2], fusions[i][3]} }
CellLinesOf(g) == { fusions[i][1] : i \in EventsOf(g) }
EventGenes == UNION { {fusions[i][2], fusions[i][3]} : i \in 1..Len(fusions) }

\* the data rows the row loop has gone through
Processed == 1..(row_idx - 1)

\* the run is past schema detection, in one of the two modes
PastDetection == pc \in {"rows", "aggregate", "build", "write", "done"}
SeparateMode == PastDetection /\ gene1_col # None /\ gene2_col # None
CombinedMode ==
  PastDetection /\ (gene1_col = None \/ gene2_col = None)
                /\ fusion_name_col # None

----------------------------------------------------------------------------
\* C1: for every gene of the written output, counts["0"] + counts["1"] +
\* counts["2"] is the number of distinct identifiers of metadata.cellLines.
C1_BucketsSumToUniverse ==
  HasOutput =>
    \A g \in DOMAIN Out.geneData :
      Out.geneData[g].counts["0"] + Out.geneData[g].counts["1"]
        + Out.geneData[g].counts["2"] = Cardinality(ToSet(metadata))

\* C1 witness: an output gene with identifiers in buckets 1 and 2, from
\* metadata that lists an identifier twice
C1_Witness ==
  /\ HasOutput
  /\ Len(metadata) > Cardinality(ToSet(metadata))
  /\ \E g \in DOMAIN Out.geneData :
       /\ Out.geneData[g].counts["1"] > 0
       /\ Out.geneData[g].counts["2"] > 0

----------------------------------------------------------------------------
\* C2: for every gene of the written output, total_translocated is
\* counts["1"] + counts["2"], no identifier of the gene's partner index is
\* in bucket 0, and total_translocated is at least MIN_CELL_LINES = 3.
C2_TotalIsBuckets12 ==
  HasOutput =>
    \A g \in DOMAIN Out.geneData :
      LET rec == Out.geneData[g]
      IN /\ rec.total_translocated = rec.counts["1"] + rec.counts["2"]
         /\ rec.total_translocated >= MIN_CELL_LINES
         /\ rec.total_translocated = Cardinality(DOMAIN rec.translocations)
         /\ \A c \in DOMAIN rec.translocations : rec.translocations[c] >= 1
         /\ rec.counts["1"] =
              Cardinality({ c \in DOMAIN rec.translocations :
                              rec.translocations[c] = 1 })
         /\ rec.counts["2"] =
              Cardinality({ c \in DOMAIN rec.translocations :
                              rec.translocations[c] >= 2 })

\* C2 witness: an output gene exactly at the threshold, one of its
\* identifiers with two partners
C2_Witness ==
  /\ HasOutput
  /\ \E g \in DOMAIN Out.geneData :
       /\ Out.geneData[g].total_translocated = MIN_CELL_LINES
       /\ Out.geneData[g].counts["2"] = 1
       /\ Out.geneData[g].counts["1"] = 2

----------------------------------------------------------------------------
\* C3: the genes array of the written output is in strictly ascending
\* string order, and its elements are exactly the keys of geneCounts and
\* exactly the keys of geneData.
C3_GenesSortedAndKeys ==
  HasOutput =>
    /\ \A i \in 1..(Len(Out.genes) - 1) :
         StrLess(Out.genes[i], Out.genes[i + 1])
    /\ ToSet(Out.genes) = DOMAIN Out.geneCounts
    /\ ToSet(Out.genes) = DOMAIN Out.geneData

\* C3 witness: an output of at least two genes
C3_Witness == HasOutput /\ Len(Out.genes) >= 2

----------------------------------------------------------------------------
\* C4: the gene-partner index is symmetric after every indexed event (B is
\* a partner of A under C iff A is a partner of B under C), and in the
\* written output each accepted event (C, A, B) whose genes both pass the
\* threshold has B in geneData[A].partners[C] and A in
\* geneData[B].partners[C].
C4_PartnerIndexSymmetric ==
  /\ \A a \in DOMAIN gene_partners :
       \A c \in DOMAIN gene_partners[a] :
         \A b \in gene_partners[a][c] :
           /\ b \in DOMAIN gene_partners
           /\ c \in DOMAIN gene_partners[b]
           /\ a \in gene_partners[b][c]
  /\ HasOutput =>
       \A i \in 1..Len(fusions) :
         LET c == fusions[i][1]
             a == fusions[i][2]
             b == fusions[i][3]
         IN (a \in DOMAIN Out.geneData /\ b \in DOMAIN Out.geneData) =>
              /\ c \in DOMAIN Out.geneData[a].partners
              /\ c \in DOMAIN Out.geneData[b].partners
              /\ b \in ToSet(Out.geneData[a].partners[c])
              /\ a \in ToSet(Out.geneData[b].partners[c])

\* C4 witness: an accepted event of two different genes, both in the output
C4_Witness ==
  /\ HasOutput
  /\ \E i \in 1..Len(fusions) :
       /\ fusions[i][2] # fusions[i][3]
       /\ fusions[i][2] \in DOMAIN Out.geneData
       /\ fusions[i][3] \in DOMAIN Out.geneData

----------------------------------------------------------------------------
\* C5: a run that ends in a fatal error (no argument, or a schema that
\* cannot be resolved) exits with code 1, has written nothing and has
\* processed no data row; the output is written at most once, only by a
\* run that resolved the schema and went through every row, and it is the
\* complete structure.
C5_FatalErrorsWriteNothing ==
  /\ pc = "exited" =>
       /\ exit_code = "1"
       /\ written = << >>
       /\ row_idx = 1 /\ fusions = << >>
       /\ argc < 2 \/ ((gene1_col = None \/ gene2_col = None)
                        /\ fusion_name_col = None)
  /\ (pc # "start" /\ argc < 2) => pc = "exited"
  /\ (PastDetection /\ (gene1_col = None \/ gene2_col = None)) =>
       fusion_name_col # None
  /\ Len(written) <= 1
  /\ HasOutput =>
       /\ pc = "done" /\ exit_code = "0"
       /\ argc >= 2
       /\ SeparateMode \/ CombinedMode
       /\ row_idx = Len(csv_rows) + 1
       /\ agg_idx = Len(fusions) + 1
       /\ Out = output
       /\ DOMAIN Out.geneData =
            { g \in DOMAIN gene_partners :
                Cardinality(DOMAIN gene_partners[g]) >= min_cell_lines }
  /\ exit_code = "0" => HasOutput

\* C5 witness: the schema error, on a file that has data rows
C5_Witness ==
  /\ pc = "exited"
  /\ argc >= 2
  /\ Len(csv_rows) >= 1
  /\ exit_code = "1"
  /\ written = << >>

----------------------------------------------------------------------------
\* C6: a gene is in the written output iff at least 3 distinct identifiers
\* have an accepted event with that gene as geneA or geneB; several events
\* of a gene under one identifier count once.
C6_ThresholdIff ==
  HasOutput =>
    /\ DOMAIN Out.geneData =
         { g \in EventGenes : Cardinality(CellLinesOf(g)) >= MIN_CELL_LINES }
    /\ \A g \in DOMAIN Out.geneCounts :
         Out.geneCounts[g] = Cardinality(CellLinesOf(g))

\* C6 witness: a gene kept with exactly 3 identifiers and more events than
\* identifiers, next to a gene that is dropped
C6_Witness ==
  /\ HasOutput
  /\ \E g \in DOMAIN Out.geneData :
       /\ Cardinality(CellLinesOf(g)) = MIN_CELL_LINES
       /\ Cardinality(EventsOf(g)) > MIN_CELL_LINES
  /\ \E g \in EventGenes : g \notin DOMAIN Out.geneData

----------------------------------------------------------------------------
\* the data rows whose trimmed identifier is listed in metadata.cellLines
RowsWithValidId ==
  SelectSeq(csv_rows,
            LAMBDA r : \E k \in 1..Len(metadata) :
                         metadata[k] = Strip(RowGet(cols, r, model_col)))

\* C7: every identifier that is a key of a translocations or partners map
\* of the written output is a valid identifier, and the output is the one
\* the input without the rows of invalid identifier produces.
C7_InvalidRowsContributeNothing ==
  HasOutput =>
    /\ \A g \in DOMAIN Out.geneData :
         /\ DOMAIN Out.geneData[g].translocations \subseteq ToSet(metadata)
         /\ DOMAIN Out.geneData[g].partners \subseteq ToSet(metadata)
    /\ \A i \in 1..Len(fusions) : fusions[i][1] \in ToSet(metadata)
    /\ Out = Summarize(ExtractAll(cols, model_col, gene1_col, gene2_col,
                                  fusion_name_col, valid_cell_lines,
                                  RowsWithValidId),
                       valid_cell_lines, min_cell_lines)

\* C7 witness: a non-empty output from a file that has a row of invalid
\* identifier
C7_Witness ==
  /\ HasOutput
  /\ Len(RowsWithValidId) < Len(csv_rows)
  /\ Out.genes # << >>

----------------------------------------------------------------------------
\* the trimmed identifier and the trimmed fusion name of data row i
IdOf(i) == Strip(RowGet(cols, csv_rows[i], model_col))
FusionNameOf(i) == Strip(RowGet(cols, csv_rows[i], fusion_name_col))

DoubleHyphen == << "-", "-" >>
SingleHyphen == << "-" >>

\* sep occurs in s at position k
OccursAt(s, k, sep) ==
  k + Len(sep) - 1 <= Len(s) /\ SubSeq(s, k, k + Len(sep) - 1) = sep

\* the delimiter of a fusion name: the double hyphen if the name has one
DelimiterOf(name) ==
  IF \E k \in 1..Len(name) : OccursAt(name, k, DoubleHyphen)
    THEN DoubleHyphen ELSE SingleHyphen

\* all the segments of s between occurrences of sep, left to right
RECURSIVE Segments(_, _)
Segments(s, sep) ==
  IF \E k \in 1..Len(s) : OccursAt(s, k, sep)
    THEN LET k == CHOOSE k \in 1..Len(s) :
                    OccursAt(s, k, sep)
                      /\ \A j \in 1..(k - 1) : ~OccursAt(s, j, sep)
         IN << SubSeq(s, 1, k - 1) >>
              \o Segments(SubSeq(s, k + Len(sep), Len(s)), sep)
    ELSE << s >>

\* C8 as stated: in combined-name mode every accepted event is the first
\* two segments of its row's fusion name, split on the double hyphen if the
\* name has one, else on the single hyphen ("A--B--C" gives (A, B)).
C8_FirstTwoSegments ==
  CombinedMode =>
    \A n \in 1..Len(fusions) :
      \E i \in Processed :
        LET segs == Segments(FusionNameOf(i), DelimiterOf(FusionNameOf(i)))
        IN /\ Len(segs) >= 2
           /\ fusions[n] = << IdOf(i), Strip(segs[1]), Strip(segs[2]) >>

\* the event of data row i when its name is cut once, at the first
\* occurrence of the delimiter: geneA is what precedes it, geneB all that
\* follows it
CutOnceEvents(i) ==
  LET name == FusionNameOf(i)
      d == DelimiterOf(name)
  IN { << IdOf(i), Strip(SubSeq(name, 1, k - 1)),
          Strip(SubSeq(name, k + Len(d), Len(name))) >> :
       k \in { k \in 1..Len(name) :
                 OccursAt(name, k, d)
                   /\ \A j \in 1..(k - 1) : ~OccursAt(name, j, d) } }

BCRABL1 == << "B","C","R","-","-","A","B","L","1" >>

\* C8 amended: in combined-name mode the accepted events are exactly the
\* events of the rows of valid identifier whose name, cut once at the first
\* occurrence of its delimiter, has two non-empty parts; geneB is the whole
\* remainder ("A--B--C" gives (A, "B--C")); and "BCR--ABL1" gives the event
\* that explicit columns "BCR", "ABL1" give.
C8_CutAtFirstDelimiter ==
  CombinedMode =>
    /\ ToSet(fusions) =
         { e \in UNION { CutOnceEvents(i) :
                           i \in { j \in Processed :
                                     IdOf(j) \in valid_cell_lines } } :
             e[2] # << >> /\ e[3] # << >> }
    /\ \A i \in Processed :
         FusionNameOf(i) = BCRABL1 =>
           ExtractRow(cols, model_col, gene1_col, gene2_col, fusion_name_col,
                      valid_cell_lines, csv_rows[i])
             = ExtractRow(HeaderSeparate, DetectModelCol(HeaderSeparate),
                          DetectGene1Col(HeaderSeparate),
                          DetectGene2Col(HeaderSeparate),
                          DetectFusionNameCol(HeaderSeparate),
                          valid_cell_lines,
                          << RowGet(cols, csv_rows[i], model_col), BCR, ABL1 >>)

\* C8 witness: an accepted event from a name of more than two segments,
\* next to an accepted event from the name "BCR--ABL1"
C8_Witness ==
  /\ CombinedMode
  /\ pc = "done"
  /\ \E n \in 1..Len(fusions) : Contains(fusions[n][3], DoubleHyphen)
  /\ \E i \in Processed :
       FusionNameOf(i) = BCRABL1 /\ IdOf(i) \in valid_cell_lines

----------------------------------------------------------------------------
Annotation == << " ","(","E","N","S","G","1",")" >>
OpenParen == << " ", "(" >>

\* data row i with the annotation appended to the field of column col
Annotated(i, col) ==
  [csv_rows[i] EXCEPT ![ColIndex(cols, col)] = @ \o Annotation]

ExampleRows ==
  << << ACH1, BCRAnnotated, ABL1 >>,
     << ACH1, BCR, ABL1 >>,
     << ACH2, BCR, ABL1 >> >>

\* the example: BCR has translocations {ACH-1: 1, ACH-2: 1}, counts
\* {0: 1, 1: 2, 2: 0} and total_translocated 2
ExampleHolds ==
  (HasOutput /\ SeparateMode /\ csv_rows = ExampleRows
     /\ valid_cell_lines = {ACH1, ACH2, ACH3} /\ min_cell_lines = 1) =>
    /\ BCR \in DOMAIN Out.geneData
    /\ Out.geneData[BCR].translocations = (ACH1 :> 1) @@ (ACH2 :> 1)
    /\ Out.geneData[BCR].counts = ("0" :> 1) @@ ("1" :> 2) @@ ("2" :> 0)
    /\ Out.geneData[BCR].total_translocated = 2

\* s ends with a parenthesized annotation: a ")" last, a "(" before it
EndsParenthesized(s) ==
  /\ s # << >>
  /\ s[Len(s)] = ")"
  /\ \E k \in 1..(Len(s) - 1) : s[k] = "("

\* C9 as stated: with separate gene columns any trailing parenthesized
\* annotation is stripped from a gene name before aggregation, so no
\* accepted event and no indexed gene or partner ends with one; and the
\* example holds.
C9_AnyTrailingAnnotationStripped ==
  /\ SeparateMode =>
       /\ \A n \in 1..Len(fusions) :
            ~EndsParenthesized(fusions[n][2])
              /\ ~EndsParenthesized(fusions[n][3])
       /\ \A g \in DOMAIN gene_partners :
            /\ ~EndsParenthesized(g)
            /\ \A c \in DOMAIN gene_partners[g] :
                 \A b \in gene_partners[g][c] : ~EndsParenthesized(b)
  /\ ExampleHolds

\* the gene of a field when the annotation is what follows the first
\* occurrence of space + "(" in the trimmed field
GeneOfField(field) ==
  LET s == Strip(field)
      cuts == { k \in 1..Len(s) :
                  OccursAt(s, k, OpenParen)
                    /\ \A j \in 1..(k - 1) : ~OccursAt(s, j, OpenParen) }
  IN IF cuts = {} THEN s
     ELSE Strip(SubSeq(s, 1, (CHOOSE k \in cuts : TRUE) - 1))

\* the data rows of valid identifier, in order, as events of the genes of
\* their two gene fields, those with an empty gene left out
RECURSIVE ExpectedEvents(_)
ExpectedEvents(n) ==
  IF n = 0 THEN << >>
  ELSE LET a == GeneOfField(RowGet(cols, csv_rows[n], gene1_col))
           b == GeneOfField(RowGet(cols, csv_rows[n], gene2_col))
       IN ExpectedEvents(n - 1)
            \o (IF IdOf(n) \in valid_cell_lines /\ a # << >> /\ b # << >>
                  THEN << << IdOf(n), a, b >> >> ELSE << >>)

\* C9 amended: with separate gene columns a gene name is trimmed and, if it
\* then contains space + "(", cut at the first occurrence and trimmed
\* again: an annotation is stripped only when a space precedes its opening
\* parenthesis ("BCR (ENSG1)" is BCR, "BCR(ENSG1)" stays a gene of its
\* own).  A row of non-empty gene name yields the same event with and
\* without " (ENSG1)" appended, no indexed gene or partner contains
\* space + "(", and the example holds.
C9_AnnotationStripped ==
  /\ SeparateMode =>
       /\ fusions = ExpectedEvents(row_idx - 1)
       /\ \A i \in Processed :
            \A col \in {gene1_col, gene2_col} :
              Strip(RowGet(cols, csv_rows[i], col)) # << >> =>
                ExtractRow(cols, model_col, gene1_col, gene2_col,
                           fusion_name_col, valid_cell_lines,
                           Annotated(i, col))
                  = ExtractRow(cols, model_col, gene1_col, gene2_col,
                               fusion_name_col, valid_cell_lines,
                               csv_rows[i])
       /\ \A n \in 1..Len(fusions) :
            \A k \in 1..Len(fusions[n][2]) \cup 1..Len(fusions[n][3]) :
              ~OccursAt(fusions[n][2], k, OpenParen)
                /\ ~OccursAt(fusions[n][3], k, OpenParen)
       /\ \A g \in DOMAIN gene_partners :
            /\ \A k \in 1..Len(g) : ~OccursAt(g, k, OpenParen)
            /\ \A c \in DOMAIN gene_partners[g] :
                 \A b \in gene_partners[g][c] :
                   \A k \in 1..Len(b) : ~OccursAt(b, k, OpenParen)
  /\ ExampleHolds

\* C9 witness: the rows of the example followed by the row (ACH-1,
\* "BCR(ENSG1)", ABL1): "BCR (ENSG1)" and BCR are one partner of ABL1 under
\* ACH-1, "BCR(ENSG1)" is a second one and a gene of the output
C9_Witness ==
  /\ SeparateMode
  /\ HasOutput
  /\ min_cell_lines = 1
  /\ valid_cell_lines = {ACH1, ACH2, ACH3}
  /\ csv_rows = ExampleRows \o << << ACH1, BCRUnspaced, ABL1 >> >>
  /\ BCRUnspaced \in DOMAIN Out.geneData
  /\ ToSet(Out.geneData[ABL1].partners[ACH1]) = {BCR, BCRUnspaced}
  /\ Out.geneData[BCR].translocations = (ACH1 :> 1) @@ (ACH2 :> 1)

\* the run of the example has written its output
C9_ExampleReached ==
  /\ SeparateMode
  /\ HasOutput
  /\ csv_rows = ExampleRows
  /\ valid_cell_lines = {ACH1, ACH2, ACH3}
  /\ min_cell_lines = 1

----------------------------------------------------------------------------
\* the accepted events as undirected events: identifier and set of genes
UndirectedEvents ==
  { << fusions[n][1], {fusions[n][2], fusions[n][3]} >> : n \in 1..Len(fusions) }

\* what the set of undirected events says of a gene
UCellLines(g) == { ev[1] : ev \in { x \in UndirectedEvents : g \in x[2] } }
UPartners(g, c) ==
  { b \in EventGenes : << c, {g, b} >> \in UndirectedEvents }

\* the list of events with its first two swapped, rotated by one, with
\* event n repeated, with the genes of event n swapped
SwapFirstTwo(s) ==
  IF Len(s) < 2 THEN s ELSE << s[2], s[1] >> \o SubSeq(s, 3, Len(s))
Rotate(s) == IF s = << >> THEN s ELSE Tail(s) \o << Head(s) >>
Repeat(s, n) == s \o << s[n] >>
SwapGenes(s, n) == [s EXCEPT ![n] = << s[n][1], s[n][3], s[n][2] >>]

\* C10: the written output is a function of the set of accepted undirected
\* events: its genes, counts and partner lists are those the set gives, and
\* the index built from the events permuted (transposition and rotation
\* generate the permutations), with an event repeated, or with the genes of
\* an event swapped, is the index the run built.
C10_DependsOnEventSetOnly ==
  HasOutput =>
    /\ ToSet(Out.genes) =
         { g \in EventGenes : Cardinality(UCellLines(g)) >= min_cell_lines }
    /\ \A g \in DOMAIN Out.geneData :
         LET rec == Out.geneData[g]
         IN /\ Out.geneCounts[g] = Cardinality(UCellLines(g))
            /\ rec.total_translocated = Cardinality(UCellLines(g))
            /\ DOMAIN rec.translocations = UCellLines(g)
            /\ DOMAIN rec.partners = UCellLines(g)
            /\ \A c \in UCellLines(g) :
                 /\ rec.translocations[c] = Cardinality(UPartners(g, c))
                 /\ ToSet(rec.partners[c]) = UPartners(g, c)
                 /\ Len(rec.partners[c]) = Cardinality(UPartners(g, c))
                 /\ \A k \in 1..(Len(rec.partners[c]) - 1) :
                      StrLess(rec.partners[c][k], rec.partners[c][k + 1])
            /\ rec.counts["1"] =
                 Cardinality({ c \in UCellLines(g) :
                                 Cardinality(UPartners(g, c)) = 1 })
            /\ rec.counts["2"] =
                 Cardinality({ c \in UCellLines(g) :
                                 Cardinality(UPartners(g, c)) >= 2 })
            /\ rec.counts["0"] =
                 Cardinality(valid_cell_lines) - Cardinality(UCellLines(g))
    /\ Aggregate(EmptyMap, SwapFirstTwo(fusions)) = gene_partners
    /\ Aggregate(EmptyMap, Rotate(fusions)) = gene_partners
    /\ \A n \in 1..Len(fusions) :
         /\ Aggregate(EmptyMap, Repeat(fusions, n)) = gene_partners
         /\ Aggregate(EmptyMap, SwapGenes(fusions, n)) = gene_partners
    /\ Out = BuildOutput(FilterGenes(gene_partners, min_cell_lines),
                         valid_cell_lines)

\* C10 witness: an output gene whose events include a repeated event and
\* the same pair in both orders, and an identifier with two partners
C10_Witness ==
  /\ HasOutput
  /\ \E n, m \in 1..Len(fusions) :
       /\ n # m
       /\ fusions[n] = fusions[m]
       /\ fusions[n][2] \in DOMAIN Out.geneData
  /\ \E n, m \in 1..Len(fusions) :
       /\ fusions[n][2] = fusions[m][3]
       /\ fusions[n][3] = fusions[m][2]
       /\ fusions[n][2] # fusions[n][3]
       /\ fusions[n][2] \in DOMAIN Out.geneData

====
